---- MODULE Spec2Model ----
(***************************************************************************)
(* Model of the pod recording admission webhook of the security profiles   *)
(* operator (package recording): podSeccompRecorder.Handle and the helpers *)
(* it calls, run by concurrent admission workers against a versioned       *)
(* object store and the process-wide replica counter map.                  *)
(*                                                                         *)
(* Strings are sequences of one-character strings, so that concatenation   *)
(* (replicaKey, annotation keys) and strings.HasPrefix are computed.       *)
(***************************************************************************)
EXTENDS Naturals, Sequences, FiniteSets, TLC

-----------------------------------------------------------------------------
(* Bounds *)

\* util.Retry: number of attempts before a conflict is given up on
MaxRetrySteps == 2
\* admission requests submitted in one behaviour
MaxRequests == 3
\* admission requests submitted in one behaviour of the sequential specification
MaxSeqRequests == 4
\* admission requests submitted in one behaviour of the specifications with a
\* second writer of the recordings
MaxEnvRequests == 2
\* writes of the second writer in one behaviour
MaxEdits == 2
\* admission requests submitted in one behaviour of the specification with two
\* recordings that keep counters
MaxKeyRequests == 3

-----------------------------------------------------------------------------
(* Strings *)

EmptyStr == << >>

HasPrefix(s, prefix) ==
    /\ Len(prefix) <= Len(s)
    /\ SubSeq(s, 1, Len(prefix)) = prefix

FormatReplica_AfterIncrement(v) == <<"-", v + 1>>

\* fmt.Sprintf("-%d", v): the decimal numeral is kept as the number itself
FormatReplica(v) == <<"-", v>>

-----------------------------------------------------------------------------
(* Operations and kinds *)

Create == "CREATE"
Update == "UPDATE"
Delete == "DELETE"

ProfileRecorderLogs == "logs"
ProfileRecorderBpf == "bpf"
ProfileRecordingKindSeccompProfile == "SeccompProfile"
ProfileRecordingKindSelinuxProfile == "SelinuxProfile"
KindApparmorProfile == "ApparmorProfile"
KindUnsupported == "Unknown"

\* Spec.Containers: nil when no container is listed, else the names listed
NilContainers == [nil |-> TRUE, names |-> {}]
Containers(names) == [nil |-> FALSE, names |-> names]

\* what updateSeccompSecurityContext / updateSelinuxSecurityContext write
SeccompLocalhostLogEnricher == "Localhost:operator/<ns>/log-enricher-trace.json"
SelinuxPermissiveProfile == "selinuxrecording.process"
Unset == "unset"

-----------------------------------------------------------------------------
(* Label selectors: a selector is the set of labels it requires *)

Matches(selector, podLabels) == selector \subseteq podLabels

-----------------------------------------------------------------------------
(* utils.AppendIfNotExists / utils.RemoveIfExists *)

Contains(list, item) == \E k \in 1..Len(list) : list[k] = item

AppendIfNotExists(list, item) ==
    IF Contains(list, item) THEN list ELSE Append(list, item)

RemoveIfExists(list, item) ==
    LET F[k \in 0..Len(list)] ==
            IF k = 0 THEN << >>
            ELSE IF list[k] = item THEN F[k-1] ELSE Append(F[k-1], list[k])
    IN  F[Len(list)]

Count(list, item) == Cardinality({k \in 1..Len(list) : list[k] = item})

-----------------------------------------------------------------------------
(* Recording Reference Tracker: pure parts *)

\* the names of recordedPods.Items, in list order
PodNames(recordedPods) == recordedPods

NewActiveWorkloads_KeepsDeleted(op, matches, podName, recordedPods) ==
    IF op = Delete
    THEN PodNames(recordedPods)
    ELSE IF matches
         THEN AppendIfNotExists(PodNames(recordedPods), podName)
         ELSE PodNames(recordedPods)

NewActiveWorkloads_NoDedup(op, matches, podName, recordedPods) ==
    IF op = Delete
    THEN RemoveIfExists(PodNames(recordedPods), podName)
    ELSE IF matches
         THEN Append(PodNames(recordedPods), podName)
         ELSE PodNames(recordedPods)

\* setActiveWorkloads, the list it assigns to Status.ActiveWorkloads
NewActiveWorkloads(op, matches, podName, recordedPods) ==
    IF op = Delete
    THEN RemoveIfExists(PodNames(recordedPods), podName)
    ELSE IF matches
         THEN AppendIfNotExists(PodNames(recordedPods), podName)
         ELSE PodNames(recordedPods)

anyPodMatch_IgnoresSelector(op, matches, podName, foundPods) ==
    IF Len(foundPods) > 0 /\ op # Delete THEN TRUE
    ELSE IF Len(foundPods) > 0
            /\ \E k \in 1..Len(foundPods) : foundPods[k] # podName THEN TRUE
    ELSE IF op # Delete THEN TRUE
    ELSE FALSE

anyPodMatch_CountsDeleted(op, matches, podName, foundPods) ==
    IF Len(foundPods) > 0 THEN TRUE
    ELSE IF op # Delete /\ matches THEN TRUE
    ELSE FALSE

anyPodMatch_NoCurrentPod(op, matches, podName, foundPods) ==
    IF Len(foundPods) > 0 /\ op # Delete THEN TRUE
    ELSE IF Len(foundPods) > 0
            /\ \E k \in 1..Len(foundPods) : foundPods[k] # podName THEN TRUE
    ELSE FALSE

anyPodMatch(op, matches, podName, foundPods) ==
    IF Len(foundPods) > 0 /\ op # Delete THEN TRUE
    ELSE IF Len(foundPods) > 0
            /\ \E k \in 1..Len(foundPods) : foundPods[k] # podName THEN TRUE
    ELSE IF op # Delete /\ matches THEN TRUE
    ELSE FALSE

-----------------------------------------------------------------------------
(* Replica Resolver: keys *)

replicaKey_PodOnly(recordingName, podName) == podName

\* fmt.Sprintf("%s/%s", recordingName, podName)
replicaKey(recordingName, podName) == recordingName \o <<"/">> \o podName

-----------------------------------------------------------------------------
(* Pod Mutator *)

\* a pod without annotations
NoAnnotations == [k \in {} |-> EmptyStr]

IsKindSupported(rec) ==
    rec.kind \in {ProfileRecordingKindSeccompProfile,
                  ProfileRecordingKindSelinuxProfile,
                  KindApparmorProfile}

shouldRecordContainer_Always(containerName, rec) == TRUE

shouldRecordContainer(containerName, rec) ==
    IF rec.containers.nil THEN TRUE
    ELSE containerName \in rec.containers.names

\* <domain-prefix>/<recordingName><replicaSuffix>_<containerName>
AnnotationDomainPrefix == <<"p">>

CtrAnnotationKey(rec, replica, ctrName) ==
    AnnotationDomainPrefix \o <<"/">> \o rec.name \o replica \o <<"_">> \o ctrName

\* the configured output reference for the recording's profile kind
CtrAnnotationValue(rec) == <<"out", rec.kind>>

updateSecurityContext(ctr, rec) ==
    IF rec.recorder # ProfileRecorderLogs THEN ctr
    ELSE IF rec.kind = ProfileRecordingKindSeccompProfile
         THEN [ctr EXCEPT !.seccomp = SeccompLocalhostLogEnricher]
    ELSE IF rec.kind = ProfileRecordingKindSelinuxProfile
         THEN [ctr EXCEPT !.selinux = SelinuxPermissiveProfile]
    ELSE ctr

\* ctrs of updatePod: references to the selected init containers, then to the
\* selected regular containers
SelectedCtrs(pod, rec) ==
    LET I[k \in 0..Len(pod.initContainers)] ==
            IF k = 0 THEN << >>
            ELSE IF shouldRecordContainer(pod.initContainers[k].name, rec)
                 THEN Append(I[k-1], <<"init", k>>) ELSE I[k-1]
        C[k \in 0..Len(pod.containers)] ==
            IF k = 0 THEN << >>
            ELSE IF shouldRecordContainer(pod.containers[k].name, rec)
                 THEN Append(C[k-1], <<"ctr", k>>) ELSE C[k-1]
    IN  I[Len(pod.initContainers)] \o C[Len(pod.containers)]

CtrAt(pod, ref) ==
    IF ref[1] = "init" THEN pod.initContainers[ref[2]] ELSE pod.containers[ref[2]]

WithCtr(pod, ref, ctr) ==
    IF ref[1] = "init"
    THEN [pod EXCEPT !.initContainers[ref[2]] = ctr]
    ELSE [pod EXCEPT !.containers[ref[2]] = ctr]

SetAnnotation(annotations, key, value) ==
    [k \in DOMAIN annotations \cup {key} |->
        IF k = key THEN value ELSE annotations[k]]

\* one iteration of the loop of updatePod over ctrs; st = [pod, podChanged]
UpdatePodStep_Overwrite(st, ref, rec, replica) ==
    LET ctr   == CtrAt(st.pod, ref)
        key   == CtrAnnotationKey(rec, replica, ctr.name)
        value == CtrAnnotationValue(rec)
        pod1  == WithCtr(st.pod, ref, updateSecurityContext(ctr, rec))
    IN  IF key \notin DOMAIN pod1.annotations \/ pod1.annotations[key] # value
        THEN [pod |-> [pod1 EXCEPT !.annotations = SetAnnotation(@, key, value)],
              podChanged |-> TRUE]
        ELSE [pod |-> pod1, podChanged |-> st.podChanged]

UpdatePodStep(st, ref, rec, replica) ==
    LET ctr   == CtrAt(st.pod, ref)
        key   == CtrAnnotationKey(rec, replica, ctr.name)
        value == CtrAnnotationValue(rec)
        pod1  == WithCtr(st.pod, ref, updateSecurityContext(ctr, rec))
    IN  IF key \notin DOMAIN pod1.annotations
        THEN [pod |-> [pod1 EXCEPT !.annotations = SetAnnotation(@, key, value)],
              podChanged |-> TRUE]
        ELSE [pod |-> pod1, podChanged |-> st.podChanged]

\* updatePod after getReplica returned replica: [pod, podChanged]
updatePod(pod, rec, replica) ==
    LET refs == SelectedCtrs(pod, rec)
        F[k \in 0..Len(refs)] ==
            IF k = 0 THEN [pod |-> pod, podChanged |-> FALSE]
            ELSE UpdatePodStep(F[k-1], refs[k], rec, replica)
    IN  F[Len(refs)]

-----------------------------------------------------------------------------
(* State *)

\* A stored recording has, next to its spec, the fields the webhook writes
\* (activeWorkloads in the status, finalizer in the metadata) and meta, which
\* stands for the rest of the object that an update of the resource carries along:
\* the number of changes other writers have made to it.
VARIABLES
    recs,       \* object store: the profile recordings of the namespace, in list order
    podPhase,   \* object store: pod name -> "absent", "admitted", "live", "terminating"
    replicas,   \* p.replicas: replica key -> next ordinal
    hs,         \* admission worker -> position in Handle and its locals
    nreq,       \* admission requests received so far
    log         \* history: the admissions answered so far, oldest first

vars == <<recs, podPhase, replicas, hs, nreq, log>>

Handlers == {1, 2}

\* corev1.Pod{} : what Handle works on when the operation is Delete
EmptyPod ==
    [name |-> EmptyStr, generateName |-> EmptyStr, labels |-> {},
     initContainers |-> << >>, containers |-> << >>, annotations |-> NoAnnotations]

NoObj == [activeWorkloads |-> << >>, finalizer |-> FALSE, meta |-> 0]
NoResp == [kind |-> "none", code |-> 0, patched |-> EmptyPod]
NoReq == [op |-> "none", name |-> EmptyStr, object |-> EmptyPod, malformed |-> FALSE]

IdleState ==
    [pc |-> "idle", req |-> NoReq, pod |-> EmptyPod, podName |-> EmptyStr,
     podLabels |-> {}, podChanged |-> FALSE, items |-> << >>, i |-> 0,
     recordedPods |-> << >>, obj |-> NoObj, fresh |-> FALSE, attempt |-> 0,
     v |-> 0, replica |-> EmptyStr, resp |-> NoResp]

\* the part of a stored recording a list or get hands to the webhook as its spec
SpecOf(id) ==
    [id |-> id, name |-> recs[id].name, selector |-> recs[id].selector,
     containers |-> recs[id].containers, recorder |-> recs[id].recorder,
     kind |-> recs[id].kind]

Item(st) == st.items[st.i]

-----------------------------------------------------------------------------
(* Handle: the local steps between two calls on shared state *)

Errored_Swallowed(st, code) ==
    [IdleState EXCEPT !.pc = "done", !.req = st.req, !.pod = st.pod,
                      !.attempt = st.attempt,
                      !.resp = [kind |-> "allowed", code |-> 200,
                                patched |-> st.req.object]]

\* admission.Errored(code, err)
Errored(st, code) ==
    [IdleState EXCEPT !.pc = "done", !.req = st.req, !.pod = st.pod,
                      !.attempt = st.attempt,
                      !.resp = [kind |-> "error", code |-> code,
                                patched |-> st.req.object]]

\* the end of Handle: admission.Allowed or admission.PatchResponseFromRaw
Respond(st) ==
    [IdleState EXCEPT !.pc = "done", !.req = st.req, !.pod = st.pod,
                      !.podChanged = st.podChanged, !.replica = st.replica,
                      !.resp = IF ~st.podChanged
                               THEN [kind |-> "allowed", code |-> 200,
                                     patched |-> st.req.object]
                               ELSE [kind |-> "patch", code |-> 200,
                                     patched |-> st.pod]]

RECURSIVE LoopHead_MatchingOnly(_)
LoopHead_MatchingOnly(st) ==
    IF st.i > Len(st.items) THEN Respond(st)
    ELSE IF \/ ~IsKindSupported(Item(st))
            \/ st.req.op = Delete
            \/ ~Matches(Item(st).selector, st.podLabels)
         THEN LoopHead_MatchingOnly([st EXCEPT !.i = @ + 1])
    ELSE [st EXCEPT !.pc = "listPods", !.recordedPods = << >>, !.obj = NoObj,
                    !.fresh = FALSE, !.attempt = 0, !.v = 0]

LoopHead_NoSkip(st) ==
    IF st.i > Len(st.items) THEN Respond(st)
    ELSE [st EXCEPT !.pc = "listPods", !.recordedPods = << >>, !.obj = NoObj,
                    !.fresh = FALSE, !.attempt = 0, !.v = 0]

\* the head of the loop over items: unsupported kinds are skipped
RECURSIVE LoopHead(_)
LoopHead(st) ==
    IF st.i > Len(st.items) THEN Respond(st)
    ELSE IF ~IsKindSupported(Item(st)) THEN LoopHead([st EXCEPT !.i = @ + 1])
    ELSE [st EXCEPT !.pc = "listPods", !.recordedPods = << >>, !.obj = NoObj,
                    !.fresh = FALSE, !.attempt = 0, !.v = 0]

\* podChanged, err = p.updatePod(pod, podName, &item), once the replica is known
ApplyUpdatePod(st, replica) ==
    LET res == updatePod(st.pod, Item(st), replica)
        st1 == [st EXCEPT !.pod = res.pod, !.podChanged = res.podChanged,
                          !.replica = replica]
    IN  LoopHead([st1 EXCEPT !.i = @ + 1])

NeedsReplica_Always(pod) == pod.generateName # EmptyStr

\* getReplica: whether the counter is consulted
NeedsReplica(pod) == pod.name = EmptyStr /\ pod.generateName # EmptyStr

\* after util.Retry returned nil: the selector test and updatePod up to getReplica
AfterTracker(st) ==
    IF Matches(Item(st).selector, st.podLabels)
    THEN IF NeedsReplica(st.pod)
         THEN [st EXCEPT !.pc = "loadReplica"]
         ELSE ApplyUpdatePod(st, EmptyStr)
    ELSE LoopHead([st EXCEPT !.i = @ + 1])

OnNotFound_Error(st) == Errored(st, 500)

\* setRecordingReferences when the Get reports NotFound: return nil
OnNotFound(st) == AfterTracker(st)

Reattempt_WriteOnly(st) == [st EXCEPT !.attempt = @ + 1, !.fresh = TRUE]

Reattempt_Relist(st) ==
    [st EXCEPT !.pc = "listPods", !.attempt = @ + 1, !.obj = NoObj, !.fresh = FALSE]

\* the function handed to util.Retry is run again: it starts with the Get
Reattempt(st) ==
    [st EXCEPT !.pc = "get", !.attempt = @ + 1, !.obj = NoObj, !.fresh = FALSE]

\* util.Retry on a conflict: another attempt, or the error once the steps are used
\* up; attempt counts the attempts that ended in a conflict
RetryOrFail(st) ==
    IF st.attempt + 1 < MaxRetrySteps
    THEN Reattempt(st)
    ELSE Errored([st EXCEPT !.attempt = @ + 1], 500)

OnStoreError_Retried(st) == RetryOrFail(st)

\* an error of the store that is no conflict ends util.Retry and the request
OnStoreError(st) == Errored(st, 500)

\* a successful write of recording id by worker h makes every other copy stale
Invalidate(h, id, hs1) ==
    [g \in Handlers |->
        IF g # h /\ hs1[g].pc \in {"status", "cleanup", "update"} /\ Item(hs1[g]).id = id
        THEN [hs1[g] EXCEPT !.fresh = FALSE]
        ELSE hs1[g]]

-----------------------------------------------------------------------------
(* The pods and recordings of the namespace *)

PodA == <<"a">>
PodB == <<"b">>
PodC == <<"c">>
GenW == <<"w", "-">>
GenWx == <<"w", "-", "x">>

\* the order in which a list call returns pods
PodOrder == <<PodA, PodB, PodC, GenWx>>
AllPods == {PodOrder[k] : k \in 1..Len(PodOrder)}

AppLabels == {"app"}
LabelsOf(name) == IF name = PodC THEN {} ELSE AppLabels

\* w-x got its name from the prefix w-; the client of b gave it both a name and a
\* prefix; a and c have a name only
GenerateNameOf(name) ==
    IF name = GenWx THEN GenW
    ELSE IF name = PodB THEN <<"b", "-">>
    ELSE EmptyStr

MainCtr == [name |-> <<"m">>, seccomp |-> Unset, selinux |-> Unset]

PodObject(name) ==
    [name |-> name, generateName |-> GenerateNameOf(name), labels |-> LabelsOf(name),
     initContainers |-> << >>, containers |-> <<MainCtr>>,
     annotations |-> NoAnnotations]

Rec1Name == <<"r", "1">>

Recording(name, selector, containers, recorder, kind) ==
    [name |-> name, selector |-> selector, containers |-> containers,
     recorder |-> recorder, kind |-> kind, exists |-> TRUE,
     activeWorkloads |-> << >>, finalizer |-> FALSE, meta |-> 0]

\* a pod of a workload: no name yet, only the prefix of the name it will get
GeneratedPod(prefix) ==
    [name |-> EmptyStr, generateName |-> prefix, labels |-> AppLabels,
     initContainers |-> << >>, containers |-> <<MainCtr>>,
     annotations |-> NoAnnotations]

CreateGenerated(prefix) ==
    [op |-> Create, name |-> EmptyStr, object |-> GeneratedPod(prefix),
     malformed |-> FALSE]

Request(op, name) ==
    [op |-> op, name |-> name,
     object |-> IF op = Delete THEN EmptyPod ELSE PodObject(name),
     malformed |-> FALSE]

\* the requests the API server can send with the pods as they are: admission of a
\* Create runs before the store is asked whether the name is taken, and a client
\* or the API server may repeat a call
Admissible(r) ==
    \/ r.op = Create
    \/ r.op = Update /\ podPhase[r.name] = "live"
    \/ r.op = Delete /\ podPhase[r.name] = "live"

-----------------------------------------------------------------------------
(* Actions: the API server sends a request *)

Submit(h, r, max) ==
    /\ hs[h].pc = "idle"
    /\ nreq < max
    /\ Admissible(r)
    /\ hs' = [hs EXCEPT ![h] = [IdleState EXCEPT !.pc = "listRecordings", !.req = r]]
    /\ nreq' = nreq + 1
    /\ UNCHANGED <<recs, podPhase, replicas, log>>

(* Actions: Handle, one action per call on shared state, each followed by the
   local steps up to the next call *)

DecodedPod_OldObject(req) ==
    IF req.op # Delete THEN req.object ELSE PodObject(req.name)

\* pod := &corev1.Pod{}, replaced by the decoded object unless the operation is
\* Delete
DecodedPod(req) == IF req.op # Delete THEN req.object ELSE EmptyPod

DecodeFails_OnDeleteToo(req) == req.malformed

\* p.impl.DecodePod is called unless the operation is Delete, and fails on a
\* payload that is no pod
DecodeFails(req) == req.op # Delete /\ req.malformed

\* p.impl.ListProfileRecordings, then DecodePod, podName, podLabels
ListProfileRecordings(h) ==
    LET st    == hs[h]
        ids   == SelectSeq([k \in 1..Len(recs) |-> k], LAMBDA k : recs[k].exists)
        items == [k \in 1..Len(ids) |-> SpecOf(ids[k])]
        pod   == DecodedPod(st.req)
        name  == IF st.req.name = EmptyStr THEN pod.generateName ELSE st.req.name
    IN  /\ st.pc = "listRecordings"
        /\ hs' = [hs EXCEPT ![h] =
                    IF DecodeFails(st.req)
                    THEN Errored(st, 400)
                    ELSE LoopHead([st EXCEPT !.items = items, !.i = 1, !.pod = pod,
                                             !.podName = name,
                                             !.podLabels = pod.labels])]
        /\ UNCHANGED <<recs, podPhase, replicas, nreq, log>>

\* p.impl.ListRecordedPods: the pods in the store the item's selector matches
ListRecordedPods(h) ==
    LET st == hs[h]
    IN  /\ st.pc = "listPods"
        /\ hs' = [hs EXCEPT ![h] =
                    [st EXCEPT !.pc = "get",
                               !.recordedPods =
                                   SelectSeq(PodOrder, LAMBDA n :
                                       /\ podPhase[n] \in {"live", "terminating"}
                                       /\ Matches(Item(st).selector, LabelsOf(n)))]]
        /\ UNCHANGED <<recs, podPhase, replicas, nreq, log>>

\* setRecordingReferences: p.impl.GetProfileRecording
GetProfileRecording(h) ==
    LET st == hs[h]
        id == Item(st).id
    IN  /\ st.pc = "get"
        /\ hs' = [hs EXCEPT ![h] =
                    IF ~recs[id].exists
                    THEN OnNotFound(st)
                    ELSE [st EXCEPT !.pc = "status", !.fresh = TRUE,
                                    !.obj = [activeWorkloads |-> recs[id].activeWorkloads,
                                             finalizer |-> recs[id].finalizer,
                                             meta |-> recs[id].meta]]]
        /\ UNCHANGED <<recs, podPhase, replicas, nreq, log>>

\* setFinalizers up to the write: the finalizer is added or removed on the copy
SetFinalizerOnCopy(st) ==
    IF anyPodMatch(st.req.op, Matches(Item(st).selector, st.podLabels),
                   st.podName, st.recordedPods)
    THEN [st EXCEPT !.obj.finalizer = TRUE, !.pc = "update"]
    ELSE IF st.obj.finalizer
         THEN [st EXCEPT !.obj.finalizer = FALSE, !.pc = "cleanup"]
         ELSE [st EXCEPT !.pc = "update"]

\* setActiveWorkloads: p.impl.UpdateResourceStatus, then setFinalizers up to its
\* first call on shared state
UpdateResourceStatus(h) ==
    LET st  == hs[h]
        id  == Item(st).id
        new == NewActiveWorkloads(st.req.op,
                                  Matches(Item(st).selector, st.podLabels),
                                  st.podName, st.recordedPods)
    IN  /\ st.pc = "status"
        /\ IF ~recs[id].exists
           THEN /\ hs' = [hs EXCEPT ![h] = Errored(st, 500)]
                /\ UNCHANGED recs
           ELSE IF st.fresh
           THEN /\ recs' = [recs EXCEPT ![id].activeWorkloads = new]
                /\ hs' = Invalidate(h, id,
                            [hs EXCEPT ![h] =
                                SetFinalizerOnCopy([st EXCEPT !.obj.activeWorkloads = new])])
           ELSE /\ hs' = [hs EXCEPT ![h] = RetryOrFail(st)]
                /\ UNCHANGED recs
        /\ UNCHANGED <<podPhase, replicas, nreq, log>>

\* cleanupReplicas: Range stops at the first key that is a prefix of rKey and
\* deletes it; the order of Range over a sync.Map is not specified
cleanupReplicas(h) ==
    LET st   == hs[h]
        rKey == replicaKey(Item(st).name, st.podName)
        hit  == {k \in DOMAIN replicas : HasPrefix(rKey, k)}
    IN  /\ st.pc = "cleanup"
        /\ IF hit = {}
           THEN UNCHANGED replicas
           ELSE \E k \in hit :
                    replicas' = [x \in DOMAIN replicas \ {k} |-> replicas[x]]
        /\ hs' = [hs EXCEPT ![h].pc = "update"]
        /\ UNCHANGED <<recs, podPhase, nreq, log>>

\* setFinalizers: p.impl.UpdateResource, then the rest of the loop body
UpdateResource(h) ==
    LET st == hs[h]
        id == Item(st).id
    IN  /\ st.pc = "update"
        /\ IF ~recs[id].exists
           THEN /\ hs' = [hs EXCEPT ![h] = Errored(st, 500)]
                /\ UNCHANGED recs
           ELSE IF st.fresh
           THEN /\ recs' = [recs EXCEPT ![id].finalizer = st.obj.finalizer,
                                        ![id].meta = st.obj.meta]
                /\ hs' = Invalidate(h, id, [hs EXCEPT ![h] = AfterTracker(st)])
           ELSE /\ hs' = [hs EXCEPT ![h] = RetryOrFail(st)]
                /\ UNCHANGED recs
        /\ UNCHANGED <<podPhase, replicas, nreq, log>>

\* getReplica: p.replicas.LoadOrStore(rKey, uint(0))
LoadOrStore(h) ==
    LET st   == hs[h]
        rKey == replicaKey(Item(st).name, st.pod.generateName)
    IN  /\ st.pc = "loadReplica"
        /\ IF rKey \in DOMAIN replicas
           THEN /\ hs' = [hs EXCEPT ![h].pc = "storeReplica", ![h].v = replicas[rKey]]
                /\ UNCHANGED replicas
           ELSE /\ hs' = [hs EXCEPT ![h].pc = "storeReplica", ![h].v = 0]
                /\ replicas' = [x \in DOMAIN replicas \cup {rKey} |->
                                   IF x = rKey THEN 0 ELSE replicas[x]]
        /\ UNCHANGED <<recs, podPhase, nreq, log>>

\* getReplica: p.replicas.Store(rKey, vUint+1), then the rest of updatePod and of
\* the loop body
StoreReplica(h) ==
    LET st   == hs[h]
        rKey == replicaKey(Item(st).name, st.pod.generateName)
    IN  /\ st.pc = "storeReplica"
        /\ replicas' = [x \in DOMAIN replicas \cup {rKey} |->
                           IF x = rKey THEN st.v + 1 ELSE replicas[x]]
        /\ hs' = [hs EXCEPT ![h] = ApplyUpdatePod(st, FormatReplica(st.v))]
        /\ UNCHANGED <<recs, podPhase, nreq, log>>

\* a call on the object store fails with an error that is no conflict
StoreError(h) ==
    /\ hs[h].pc \in {"listRecordings", "listPods", "get", "status", "update"}
    /\ hs' = [hs EXCEPT ![h] = OnStoreError(hs[h])]
    /\ UNCHANGED <<recs, podPhase, replicas, nreq, log>>

-----------------------------------------------------------------------------
(* Actions: the API server acts on the response, pods appear and disappear *)

\* the pod phases once the API server has the response of st; created and deleted
\* are the phases an admitted Create and an admitted Delete lead to
PhasesAfter(st, created, deleted) ==
    LET r == st.req
    IN  IF st.resp.kind = "error" THEN podPhase
        ELSE IF r.op = Create /\ r.name # EmptyStr /\ podPhase[r.name] = "absent"
             THEN [podPhase EXCEPT ![r.name] = created]
        ELSE IF r.op = Create /\ r.name = EmptyStr /\ podPhase[GenWx] = "absent"
             THEN [podPhase EXCEPT ![GenWx] = created]
        ELSE IF r.op = Delete /\ podPhase[r.name] = "live"
             THEN [podPhase EXCEPT ![r.name] = deleted]
        ELSE podPhase

\* the response reaches the API server; the pod is written or removed later
Complete(h) ==
    /\ hs[h].pc = "done"
    /\ podPhase' = PhasesAfter(hs[h], "admitted", "terminating")
    /\ hs' = [hs EXCEPT ![h] = IdleState]
    /\ UNCHANGED <<recs, replicas, nreq, log>>

PodPersisted(n) ==
    /\ podPhase[n] = "admitted"
    /\ podPhase' = [podPhase EXCEPT ![n] = "live"]
    /\ UNCHANGED <<recs, replicas, hs, nreq, log>>

PodGone(n) ==
    /\ podPhase[n] = "terminating"
    /\ podPhase' = [podPhase EXCEPT ![n] = "absent"]
    /\ UNCHANGED <<recs, replicas, hs, nreq, log>>

\* the response reaches the API server, which writes or removes the pod at once;
\* the admission is entered into the history
CompleteNow(h) ==
    /\ hs[h].pc = "done"
    /\ podPhase' = PhasesAfter(hs[h], "live", "absent")
    /\ log' = Append(log, [op |-> hs[h].req.op, name |-> hs[h].req.name,
                           object |-> hs[h].req.object, resp |-> hs[h].resp])
    /\ hs' = [hs EXCEPT ![h] = IdleState]
    /\ UNCHANGED <<recs, replicas, nreq>>

-----------------------------------------------------------------------------
(* Specification: two concurrent admission workers, one recording, pods a, b
   (selected) and c (not selected) *)

ConcPods == {PodA, PodB, PodC}
ConcRequests == {Request(op, n) : op \in {Create, Update, Delete}, n \in ConcPods}

Init ==
    /\ recs = <<Recording(Rec1Name, AppLabels, NilContainers,
                          ProfileRecorderLogs, ProfileRecordingKindSeccompProfile)>>
    /\ podPhase = [n \in AllPods |-> "absent"]
    /\ replicas = [k \in {} |-> 0]
    /\ hs = [h \in Handlers |-> IdleState]
    /\ nreq = 0
    /\ log = << >>

Next ==
    \/ \E h \in Handlers, r \in ConcRequests : Submit(h, r, MaxRequests)
    \/ \E h \in Handlers : ListProfileRecordings(h)
    \/ \E h \in Handlers : ListRecordedPods(h)
    \/ \E h \in Handlers : GetProfileRecording(h)
    \/ \E h \in Handlers : UpdateResourceStatus(h)
    \/ \E h \in Handlers : cleanupReplicas(h)
    \/ \E h \in Handlers : UpdateResource(h)
    \/ \E h \in Handlers : StoreError(h)
    \/ \E h \in Handlers : Complete(h)
    \/ \E n \in AllPods : PodPersisted(n)
    \/ \E n \in AllPods : PodGone(n)

Spec == Init /\ [][Next]_vars

-----------------------------------------------------------------------------
(* Specification: two concurrent admission workers admit the pods of a workload
   (empty name, generate-name prefix "w-") that the recording selects *)

ReplicaRequests == {CreateGenerated(GenW)}

NextReplica ==
    \/ \E h \in Handlers, r \in ReplicaRequests : Submit(h, r, MaxRequests)
    \/ \E h \in Handlers : ListProfileRecordings(h)
    \/ \E h \in Handlers : ListRecordedPods(h)
    \/ \E h \in Handlers : GetProfileRecording(h)
    \/ \E h \in Handlers : UpdateResourceStatus(h)
    \/ \E h \in Handlers : UpdateResource(h)
    \/ \E h \in Handlers : LoadOrStore(h)
    \/ \E h \in Handlers : StoreReplica(h)
    \/ \E h \in Handlers : Complete(h)
    \/ \E n \in AllPods : PodPersisted(n)

SpecReplica == Init /\ [][NextReplica]_vars

\* a worker that has answered a Create of a generated pod with a patch
Resolved(h) ==
    /\ hs[h].pc = "done"
    /\ hs[h].resp.kind = "patch"
    /\ NeedsReplica(hs[h].req.object)

\* C1: two resolutions for the same recording and generate-name prefix whose
\* answers are both outstanding never carry the same replica suffix
C1_DistinctSuffixes ==
    \A g, h \in Handlers :
        (g # h /\ Resolved(g) /\ Resolved(h)
            /\ hs[g].req.object.generateName = hs[h].req.object.generateName)
        => hs[g].replica # hs[h].replica

-----------------------------------------------------------------------------
(* Claims checked under Spec *)

Idle == \A h \in Handlers : hs[h].pc = "idle"

Answered(h) == hs[h].pc = "done" /\ hs[h].resp.kind # "error"

\* pods whose Create was admitted and whose Delete was not
Referencing(id) ==
    {n \in AllPods : /\ podPhase[n] \in {"admitted", "live"}
                     /\ Matches(recs[id].selector, LabelsOf(n))}

\* C2: when the first two requests are Create of a and Create of b, handled by the
\* two workers, and both are answered successfully, the active-workload list is the
\* one a sequential handling of the two yields, with both pods in it
C2_ConcurrentAddsSerializable ==
    (/\ nreq = 2
     /\ Answered(1) /\ hs[1].req = Request(Create, PodA)
     /\ Answered(2) /\ hs[2].req = Request(Create, PodB))
    => recs[1].activeWorkloads \in {<<PodA, PodB>>, <<PodB, PodA>>}

\* C3: with no request in flight, a recording that a pod still references carries
\* the finalizer
C3_FinalizerWhileReferenced ==
    (Idle /\ Referencing(1) # {}) => recs[1].finalizer

-----------------------------------------------------------------------------
(* Specification: one admission worker, requests one after the other; the API
   server writes or removes the pod as soon as it has the answer *)

SeqRequests ==
    {Request(op, n) : op \in {Create, Update, Delete}, n \in ConcPods}
        \cup {CreateGenerated(GenW), Request(Delete, GenWx)}

NextSeq ==
    \/ \E r \in SeqRequests : Submit(1, r, MaxSeqRequests)
    \/ ListProfileRecordings(1)
    \/ ListRecordedPods(1)
    \/ GetProfileRecording(1)
    \/ UpdateResourceStatus(1)
    \/ cleanupReplicas(1)
    \/ UpdateResource(1)
    \/ LoadOrStore(1)
    \/ StoreReplica(1)
    \/ StoreError(1)
    \/ CompleteNow(1)

SpecSeq == Init /\ [][NextSeq]_vars

-----------------------------------------------------------------------------
(* Claims checked under Spec, continued *)

\* the step in which worker h's UpdateResourceStatus call succeeds
StatusWrote(h) ==
    /\ hs[h].pc = "status"
    /\ hs[h].fresh
    /\ hs'[h].pc \in {"update", "cleanup"}

\* the step in which worker h's UpdateResource call succeeds, which ends a
\* successful evaluation of the tracker
TrackerSucceeded(h) ==
    /\ hs[h].pc = "update"
    /\ hs[h].fresh
    /\ hs'[h].pc # "update"
    /\ ~(hs'[h].pc = "done" /\ hs'[h].resp.kind = "error")

\* the evaluation of worker h found a pod that could reference the recording: a pod
\* of the snapshot other than the one being deleted, or the current pod of a
\* request that is no Delete when the selector matches it
FoundReferencingPod(st) ==
    \/ \E k \in 1..Len(st.recordedPods) :
            st.req.op # Delete \/ st.recordedPods[k] # st.podName
    \/ st.req.op # Delete /\ Matches(Item(st).selector, st.podLabels)

\* C5: a successful evaluation leaves the finalizer on the stored recording exactly
\* if it found a pod that could reference the recording
C5_FinalizerIffPodFound ==
    [][\A h \in Handlers :
          TrackerSucceeded(h)
          => recs'[Item(hs[h]).id].finalizer = FoundReferencingPod(hs[h])]_vars

C5_Witness ==
    \E h \in Handlers :
        /\ Answered(h) /\ hs[h].req.op = Delete
        /\ recs[1].finalizer /\ recs[1].activeWorkloads # << >>

NoDuplicates(list) == \A j, k \in 1..Len(list) : list[j] = list[k] => j = k

\* C6: no stored active-workload list holds a pod name twice
C6_NoDuplicateWorkloads ==
    \A id \in 1..Len(recs) : NoDuplicates(recs[id].activeWorkloads)

\* an Update of a pod that is in the store and in the list has been answered
C6_Witness ==
    \E h \in Handlers :
        /\ Answered(h) /\ hs[h].req.op = Update
        /\ podPhase[hs[h].req.name] = "live"
        /\ Contains(recs[1].activeWorkloads, hs[h].req.name)

\* worker h handles a pod whose labels the selector of the current item does not match
HandlesUnselected(h) ==
    /\ hs[h].pc \in {"listPods", "get", "status", "cleanup", "update"}
    /\ ~Matches(Item(hs[h]).selector, LabelsOf(hs[h].req.name))

-----------------------------------------------------------------------------
(* Claims checked under SpecSeq *)

\* the admissions answered so far, all successfully, are exactly ops
Admitted(ops) ==
    /\ Idle
    /\ Len(log) = Len(ops)
    /\ \A k \in 1..Len(ops) :
            /\ log[k].op = ops[k][1]
            /\ log[k].name = ops[k][2]
            /\ log[k].resp.kind # "error"

AsSet(list) == {list[k] : k \in 1..Len(list)}

\* C4: after Create(a), Create(b) the recording has the finalizer and the list is
\* the set {a, b}; after Delete(a), Delete(b) on top the list is empty and the
\* finalizer is gone
C4_FinalizerLifecycle ==
    /\ Admitted(<< <<Create, PodA>>, <<Create, PodB>> >>)
        => /\ recs[1].finalizer
           /\ AsSet(recs[1].activeWorkloads) = {PodA, PodB}
           /\ Len(recs[1].activeWorkloads) = 2
    /\ Admitted(<< <<Create, PodA>>, <<Create, PodB>>,
                   <<Delete, PodA>>, <<Delete, PodB>> >>)
        => /\ recs[1].activeWorkloads = << >>
           /\ ~recs[1].finalizer

C4_Witness ==
    Admitted(<< <<Create, PodA>>, <<Create, PodB>>,
                <<Delete, PodA>>, <<Delete, PodB>> >>)

\* entries j < k of the history answer the same Create of a pod with a name
SameCreateTwice(j, k) ==
    /\ j < k
    /\ log[j].op = Create /\ log[k].op = Create
    /\ log[j].name # EmptyStr
    /\ log[j].name = log[k].name /\ log[j].object = log[k].object
    /\ log[j].resp.kind # "error" /\ log[k].resp.kind # "error"

\* C7: two answers to the same Create of a named pod carry the same annotations,
\* and after the second the list holds the name of a selected pod exactly once
C7_CreateIdempotent ==
    \A j, k \in 1..Len(log) :
        SameCreateTwice(j, k)
        => /\ log[j].resp.kind = log[k].resp.kind
           /\ log[j].resp.patched.annotations = log[k].resp.patched.annotations
           /\ (Idle /\ k = Len(log) /\ Matches(recs[1].selector, log[k].object.labels))
                => Count(recs[1].activeWorkloads, log[k].name) = 1

\* b, selected and with the recording's annotation in both answers, was created twice
C7_Witness ==
    /\ Idle /\ Len(log) = 2 /\ SameCreateTwice(1, 2)
    /\ log[1].name = PodB
    /\ log[2].resp.kind = "patch"
    /\ DOMAIN log[2].resp.patched.annotations
         = {CtrAnnotationKey(SpecOf(1), EmptyStr, MainCtr.name)}

-----------------------------------------------------------------------------
(* Specification: one admission worker handles one request; the two recordings of
   the namespace, their order in the list, the pod and its annotations are drawn
   from the sets below *)

Rec2Name == <<"r", "2">>
InitCtr == [name |-> <<"i">>, seccomp |-> Unset, selinux |-> Unset]
SideCtr == [name |-> <<"s">>, seccomp |-> Unset, selinux |-> Unset]
CtrNames == {InitCtr.name, MainCtr.name, SideCtr.name}

MutRec1 ==
    Recording(Rec1Name, AppLabels, NilContainers,
              ProfileRecorderLogs, ProfileRecordingKindSeccompProfile)

MutRec2s ==
    {Recording(Rec2Name, sel, ctrs, recorder, kind) :
        sel \in {{}, AppLabels},
        ctrs \in {NilContainers, Containers({MainCtr.name})},
        recorder \in {ProfileRecorderLogs, ProfileRecorderBpf},
        kind \in {ProfileRecordingKindSeccompProfile,
                  ProfileRecordingKindSelinuxProfile, KindUnsupported}}

\* the annotations rec writes for the containers of ctrNames, replica suffix empty
AnnotationsOf(rec, ctrNames) ==
    LET keys == {CtrAnnotationKey(rec, EmptyStr, c) : c \in ctrNames}
    IN  [k \in keys |-> CtrAnnotationValue(rec)]

Merge(f, g) ==
    [k \in DOMAIN f \cup DOMAIN g |-> IF k \in DOMAIN f THEN f[k] ELSE g[k]]

OtherValue == <<"other">>

\* what a pod can carry when it arrives: nothing, a foreign value under the key of
\* r1 and its main container, the annotations of r2, the annotations of both
MutAnnotations(rec2) ==
    {NoAnnotations,
     [k \in {CtrAnnotationKey(MutRec1, EmptyStr, MainCtr.name)} |-> OtherValue],
     AnnotationsOf(rec2, CtrNames),
     Merge(AnnotationsOf(MutRec1, CtrNames), AnnotationsOf(rec2, CtrNames))}

MutPod(name, annotations) ==
    [name |-> name, generateName |-> GenerateNameOf(name), labels |-> LabelsOf(name),
     initContainers |-> <<InitCtr>>, containers |-> <<MainCtr, SideCtr>>,
     annotations |-> annotations]

MutRequests(rec2) ==
    {[op |-> op, name |-> n, object |-> MutPod(n, ann), malformed |-> FALSE] :
        op \in {Create, Update}, n \in {PodA, PodC}, ann \in MutAnnotations(rec2)}
    \cup {Request(Delete, n) : n \in {PodA, PodC}}
    \cup {CreateGenerated(GenW)}
    \cup {[op |-> Create, name |-> PodA, object |-> MutPod(PodA, NoAnnotations),
           malformed |-> TRUE],
          [op |-> Delete, name |-> PodA, object |-> EmptyPod, malformed |-> TRUE]}

\* the recordings as the tracker left them with the pods of live in the store
Tracked(list, live) ==
    [k \in 1..Len(list) |->
        LET aw == SelectSeq(PodOrder, LAMBDA n :
                      n \in live /\ Matches(list[k].selector, LabelsOf(n)))
        IN  [list[k] EXCEPT !.activeWorkloads = aw, !.finalizer = aw # << >>]]

InitMutate ==
    \E rec2 \in MutRec2s : \E r \in MutRequests(rec2) :
        LET live == IF r.op \in {Update, Delete} THEN {r.name} ELSE {}
        IN  /\ recs \in {Tracked(<<MutRec1, rec2>>, live),
                         Tracked(<<rec2, MutRec1>>, live)}
            /\ podPhase = [n \in AllPods |-> IF n \in live THEN "live" ELSE "absent"]
            /\ replicas = [k \in {} |-> 0]
            /\ hs = [h \in Handlers |->
                        IF h = 1
                        THEN [IdleState EXCEPT !.pc = "listRecordings", !.req = r]
                        ELSE IdleState]
            /\ nreq = 1
            /\ log = << >>

NextMutate ==
    \/ ListProfileRecordings(1)
    \/ ListRecordedPods(1)
    \/ GetProfileRecording(1)
    \/ UpdateResourceStatus(1)
    \/ cleanupReplicas(1)
    \/ UpdateResource(1)
    \/ LoadOrStore(1)
    \/ StoreReplica(1)
    \/ CompleteNow(1)

SpecMutate == InitMutate /\ [][NextMutate]_vars

-----------------------------------------------------------------------------
(* Claims checked under SpecMutate *)

\* worker h has decoded the pod of its request and has not failed
Mutating(h) ==
    /\ hs[h].pc \notin {"idle", "listRecordings"}
    /\ hs[h].resp.kind # "error"

\* C9: an annotation the pod arrived with keeps its value, a request whose pod got
\* no new key is answered as unchanged, and no annotation fails a request
C9_ExistingAnnotationKept ==
    \A h \in Handlers :
        LET orig == hs[h].req.object.annotations
            cur  == hs[h].pod.annotations
        IN  /\ Mutating(h) /\ hs[h].req.op # Delete
                => \A k \in DOMAIN orig : k \in DOMAIN cur /\ cur[k] = orig[k]
            /\ (Mutating(h) /\ hs[h].pc = "done" /\ DOMAIN cur = DOMAIN orig)
                => hs[h].resp.kind = "allowed"
            /\ (hs[h].pc = "done" /\ ~hs[h].req.malformed)
                => hs[h].resp.kind # "error"

\* the pod arrived with a foreign value under the key r1 computes for its main
\* container, r1 selected the pod, and the request was answered
C9_Witness ==
    LET key == CtrAnnotationKey(MutRec1, EmptyStr, MainCtr.name)
    IN  /\ hs[1].pc = "done" /\ hs[1].resp.kind = "patch"
        /\ hs[1].req.name = PodA
        /\ key \in DOMAIN hs[1].req.object.annotations
        /\ hs[1].req.object.annotations[key] = OtherValue
        /\ hs[1].resp.patched.annotations[key] = OtherValue

\* C10: an answer of "unchanged" means that no recording added an annotation to
\* the pod; as soon as one did, the answer is a patch
C10_DecisionAggregates ==
    \A h \in Handlers :
        (hs[h].pc = "done" /\ hs[h].resp.kind = "allowed")
        => hs[h].pod.annotations = hs[h].req.object.annotations

\* the containers of a pod, init containers first
AllCtrs(pod) == pod.initContainers \o pod.containers

\* ctr carries what updateSecurityContext writes for rec
RewriteApplied(ctr, rec) ==
    /\ rec.kind = ProfileRecordingKindSeccompProfile
        => ctr.seccomp = SeccompLocalhostLogEnricher
    /\ rec.kind = ProfileRecordingKindSelinuxProfile
        => ctr.selinux = SelinuxPermissiveProfile

\* C11: in the pod an answered request admits, every container selected by a
\* supported recording with the Logs recorder that matches the pod carries the
\* security context of that recording, whether its annotation was there or not
C11_RewriteInAdmittedPod ==
    \A h \in Handlers :
        (hs[h].pc = "done" /\ hs[h].resp.kind # "error" /\ hs[h].req.op # Delete)
        => \A id \in 1..Len(recs) :
              (/\ IsKindSupported(recs[id])
               /\ recs[id].recorder = ProfileRecorderLogs
               /\ Matches(recs[id].selector, hs[h].req.object.labels))
              => LET admitted == AllCtrs(hs[h].resp.patched)
                 IN  \A k \in 1..Len(admitted) :
                        shouldRecordContainer(admitted[k].name, recs[id])
                        => RewriteApplied(admitted[k], recs[id])

\* rec is one of the recordings Handle applies to a pod with these labels
Applies(rec, podLabels) == IsKindSupported(rec) /\ Matches(rec.selector, podLabels)

\* rec lists no container, or it lists this one
Selects(rec, ctrName) == rec.containers.nil \/ ctrName \in rec.containers.names

\* the replica suffix of the keys written for pod when no counter exists yet
FirstReplica(pod) == IF NeedsReplica(pod) THEN FormatReplica(0) ELSE EmptyStr

\* worker h has answered a request that carried a pod, without an error
Mutated(h) ==
    hs[h].pc = "done" /\ hs[h].resp.kind # "error" /\ hs[h].req.op # Delete

\* C12: once the handler is through, a container that an applied recording selects
\* (every container when the recording lists none) has the recording's annotation
\* and, for the Logs recorder, its security context; for a container a recording
\* does not select the recording's key is present exactly if the pod arrived with
\* it, and a container no applied Logs recording selects is as it arrived
C12_ContainerFiltering ==
    \A h \in Handlers :
        Mutated(h)
        => LET orig == hs[h].req.object
               cur  == hs[h].pod
               rep  == FirstReplica(orig)
           IN  \A k \in 1..Len(AllCtrs(cur)) :
                  LET c == AllCtrs(cur)[k]
                      o == AllCtrs(orig)[k]
                  IN  /\ \A id \in 1..Len(recs) :
                            LET rec == recs[id]
                                key == CtrAnnotationKey(rec, rep, c.name)
                            IN  IF Applies(rec, orig.labels) /\ Selects(rec, c.name)
                                THEN /\ key \in DOMAIN cur.annotations
                                     /\ rec.recorder = ProfileRecorderLogs
                                            => RewriteApplied(c, rec)
                                ELSE key \in DOMAIN cur.annotations
                                        <=> key \in DOMAIN orig.annotations
                      /\ c # o
                            => \E id \in 1..Len(recs) :
                                  /\ Applies(recs[id], orig.labels)
                                  /\ Selects(recs[id], c.name)
                                  /\ recs[id].recorder = ProfileRecorderLogs

\* c arrived without annotations; r2, the only recording that matches it, lists the
\* main container: that one is annotated and rewritten, the other two are not
C12_Witness ==
    \E id \in 1..Len(recs) :
        LET rec == recs[id]
            cur == hs[1].pod
        IN  /\ Mutated(1) /\ hs[1].resp.kind = "patch"
            /\ hs[1].req.name = PodC
            /\ hs[1].req.object.annotations = NoAnnotations
            /\ rec.name = Rec2Name /\ ~rec.containers.nil
            /\ rec.recorder = ProfileRecorderLogs
            /\ rec.kind = ProfileRecordingKindSeccompProfile
            /\ DOMAIN cur.annotations
                 = {CtrAnnotationKey(rec, EmptyStr, MainCtr.name)}
            /\ cur.containers[1].seccomp = SeccompLocalhostLogEnricher
            /\ cur.containers[2] = SideCtr
            /\ cur.initContainers[1] = InitCtr

-----------------------------------------------------------------------------
(* Claims checked under SpecSeq, continued *)

\* entry k of the history is an admitted Create of a pod of the workload w-
GeneratedCreate(k) ==
    /\ log[k].op = Create /\ log[k].name = EmptyStr
    /\ log[k].object.generateName = GenW
    /\ log[k].resp.kind # "error"

\* no request up to entry n could have cleaned up the counter of r1 and w-: its key
\* is a prefix of the key of no pod but w-x, and cleanup takes a Delete of that pod
NoCleanupUpTo(n) ==
    \A k \in 1..n : ~(log[k].op = Delete /\ HasPrefix(log[k].name, GenW))

\* C13: without a cleanup, the n-th admitted Create of a pod of the workload is
\* answered with the suffix "-" followed by n-1 in the key of its annotation
C13_SequentialSuffixes ==
    \A n \in 1..Len(log) :
        (GeneratedCreate(n) /\ NoCleanupUpTo(n))
        => LET earlier == Cardinality({k \in 1..(n-1) : GeneratedCreate(k)})
           IN  /\ log[n].resp.kind = "patch"
               /\ DOMAIN log[n].resp.patched.annotations
                    = {CtrAnnotationKey(SpecOf(1), <<"-", earlier>>, MainCtr.name)}

\* three Creates in a row were answered with the suffixes -0, -1, -2
C13_Witness ==
    /\ Len(log) = 3
    /\ \A n \in 1..3 :
          /\ GeneratedCreate(n)
          /\ DOMAIN log[n].resp.patched.annotations
               = {CtrAnnotationKey(SpecOf(1), <<"-", n - 1>>, MainCtr.name)}

-----------------------------------------------------------------------------
(* Actions: a second writer of the recordings (the recording controller, a user) *)

\* the changes other writers have made so far
Edits == LET F[k \in 0..Len(recs)] == IF k = 0 THEN 0 ELSE F[k-1] + recs[k].meta
         IN  F[Len(recs)]

\* another writer updates recording id: every copy a worker holds becomes stale
ExternalEdit(id) ==
    /\ recs[id].exists
    /\ Edits < MaxEdits
    /\ recs' = [recs EXCEPT ![id].meta = @ + 1]
    /\ hs' = Invalidate(0, id, hs)
    /\ UNCHANGED <<podPhase, replicas, nreq, log>>

\* recording id is deleted; without a finalizer it leaves the store at once
DeleteRecording(id) ==
    /\ recs[id].exists
    /\ ~recs[id].finalizer
    /\ recs' = [recs EXCEPT ![id].exists = FALSE]
    /\ hs' = Invalidate(0, id, hs)
    /\ UNCHANGED <<podPhase, replicas, nreq, log>>

-----------------------------------------------------------------------------
(* Specification: one admission worker, two recordings (r1 selects the pods with
   the label app, r2 every pod) and a second writer that updates and deletes
   recordings while requests are handled *)

EnvRec2 ==
    Recording(Rec2Name, {}, Containers({MainCtr.name}),
              ProfileRecorderBpf, ProfileRecordingKindSelinuxProfile)

EnvRequests == {Request(Create, PodA), Request(Create, PodC), Request(Delete, PodA)}

InitEnv ==
    /\ recs = <<Recording(Rec1Name, AppLabels, NilContainers,
                          ProfileRecorderLogs, ProfileRecordingKindSeccompProfile),
                EnvRec2>>
    /\ podPhase = [n \in AllPods |-> "absent"]
    /\ replicas = [k \in {} |-> 0]
    /\ hs = [h \in Handlers |-> IdleState]
    /\ nreq = 0
    /\ log = << >>

NextEnv ==
    \/ \E r \in EnvRequests : Submit(1, r, MaxEnvRequests)
    \/ ListProfileRecordings(1)
    \/ ListRecordedPods(1)
    \/ GetProfileRecording(1)
    \/ UpdateResourceStatus(1)
    \/ cleanupReplicas(1)
    \/ UpdateResource(1)
    \/ CompleteNow(1)
    \/ \E id \in 1..Len(recs) : ExternalEdit(id)
    \/ \E id \in 1..Len(recs) : DeleteRecording(id)

SpecEnv == InitEnv /\ [][NextEnv]_vars

\* the same, with calls on the object store that fail
NextFail ==
    \/ NextEnv
    \/ StoreError(1)

SpecFail == InitEnv /\ [][NextFail]_vars

-----------------------------------------------------------------------------
(* Claims checked under SpecEnv *)

\* the step in which worker h's UpdateResource call succeeds
FinalizerWrote(h) ==
    /\ hs[h].pc = "update"
    /\ hs[h].fresh
    /\ recs[Item(hs[h]).id].exists
    /\ hs'[h].pc # "update"

\* C14: a write that succeeds after an attempt ended in a conflict is made with a
\* copy read after the conflicting change; it stores what this attempt computed
\* (the list, then the finalizer) and leaves the rest of the recording as the
\* conflicting writer left it
C14_RetryOnFreshVersion ==
    [][\A h \in Handlers :
          LET st  == hs[h]
              id  == Item(st).id
              sel == Matches(Item(st).selector, st.podLabels)
          IN  /\ (st.attempt >= 1 /\ StatusWrote(h))
                    => /\ st.obj.meta = recs[id].meta
                       /\ recs'[id].meta = recs[id].meta
                       /\ recs'[id].finalizer = recs[id].finalizer
                       /\ recs'[id].activeWorkloads
                            = NewActiveWorkloads(st.req.op, sel, st.podName,
                                                 st.recordedPods)
              /\ (st.attempt >= 1 /\ FinalizerWrote(h))
                    => /\ st.obj.meta = recs[id].meta
                       /\ recs'[id].meta = recs[id].meta
                       /\ recs'[id].activeWorkloads = recs[id].activeWorkloads
                       /\ recs'[id].finalizer
                            = anyPodMatch(st.req.op, sel, st.podName,
                                          st.recordedPods)]_vars

\* an attempt of Create(a) on r1 ended in a conflict with a change of the second
\* writer; the next attempt read the changed recording and its status write went
\* through, with the change still in the store
C14_Witness ==
    /\ hs[1].req = Request(Create, PodA)
    /\ hs[1].pc = "update" /\ hs[1].i = 1
    /\ hs[1].attempt = 1 /\ hs[1].fresh
    /\ hs[1].obj.meta = 1 /\ recs[1].meta = 1
    /\ recs[1].activeWorkloads = <<PodA>>

-----------------------------------------------------------------------------
(* Claims checked under SpecFail *)

\* the step in which a call of worker h on a recording ends in a conflict
Conflicted(h) ==
    /\ hs[h].pc \in {"status", "update"}
    /\ ~hs[h].fresh
    /\ recs[Item(hs[h]).id].exists
    /\ hs'[h] # hs[h]
    /\ recs' = recs

\* the step in which worker h gives up its request with an error
Failed(h) ==
    /\ hs[h].pc \notin {"idle", "done"}
    /\ hs'[h].pc = "done" /\ hs'[h].resp.kind = "error"

\* C15: only a conflict leads to another attempt; a request given up while the
\* recordings are updated is answered with 500 and the step writes nothing; an
\* error answer carries the pod as it arrived; and with a patch answered, every
\* supported recording in the store that selects the pod has it in its list and
\* has the finalizer
C15_FailureAborts ==
    [][\A h \in Handlers :
          /\ hs'[h].attempt > hs[h].attempt => Conflicted(h)
          /\ (Failed(h) /\ hs[h].pc \in {"listPods", "get", "status", "update"})
                => /\ hs'[h].resp.code = 500
                   /\ recs' = recs /\ replicas' = replicas
          /\ (hs[h].pc = "done" /\ hs[h].resp.kind = "error")
                => hs[h].resp.patched = hs[h].req.object
          /\ (hs[h].pc = "done" /\ hs[h].resp.kind = "patch")
                => \A id \in 1..Len(recs) :
                      (recs[id].exists /\ Applies(recs[id], hs[h].req.object.labels))
                      => /\ Contains(recs[id].activeWorkloads, hs[h].req.name)
                         /\ recs[id].finalizer]_vars

\* Create(a): the tracker and the mutator were through with r1 when a call for r2
\* failed; the answer is 500 without the annotation the pod has in memory
C15_Witness ==
    /\ hs[1].pc = "done" /\ hs[1].req = Request(Create, PodA)
    /\ hs[1].resp.kind = "error" /\ hs[1].resp.code = 500
    /\ hs[1].attempt = 0
    /\ recs[1].activeWorkloads = <<PodA>> /\ recs[1].finalizer
    /\ hs[1].pod.annotations # NoAnnotations
    /\ hs[1].resp.patched = PodObject(PodA)

\* C16: a request that is given up after its status write went through, with the
\* list of its evaluation in the store, leaves the finalizer in the store as the
\* same evaluation decided it
C16_NoPartialTrackerState ==
    [][\A h \in Handlers :
          LET st  == hs[h]
              id  == Item(st).id
              sel == Matches(Item(st).selector, st.podLabels)
          IN  (/\ Failed(h)
               /\ st.pc \in {"cleanup", "update"}
               /\ recs[id].exists
               /\ recs[id].activeWorkloads
                    = NewActiveWorkloads(st.req.op, sel, st.podName, st.recordedPods))
              => recs'[id].finalizer
                    = anyPodMatch(st.req.op, sel, st.podName, st.recordedPods)]_vars

-----------------------------------------------------------------------------
(* Claims checked under SpecEnv, continued *)

\* C17: no request makes more than MaxRetrySteps attempts on a recording; a
\* conflict with attempts left starts the next attempt and changes nothing the
\* answer is made of; the conflict that uses up the last attempt ends the request
\* with the answer 500
C17_RetriesBounded ==
    [][\A h \in Handlers :
          /\ hs[h].attempt <= MaxRetrySteps
          /\ hs[h].pc \notin {"idle", "done"} => hs[h].attempt < MaxRetrySteps
          /\ Conflicted(h)
                => IF hs[h].attempt + 1 < MaxRetrySteps
                   THEN /\ hs'[h].pc = "get"
                        /\ hs'[h].attempt = hs[h].attempt + 1
                        /\ hs'[h].resp = NoResp
                        /\ hs'[h].pod = hs[h].pod
                        /\ hs'[h].podChanged = hs[h].podChanged
                        /\ hs'[h].i = hs[h].i
                   ELSE /\ hs'[h].pc = "done"
                        /\ hs'[h].resp.kind = "error"
                        /\ hs'[h].resp.code = 500]_vars

\* every attempt of a request on a recording ended in a conflict with the second
\* writer, and the request was answered with 500
C17_Witness ==
    /\ hs[1].pc = "done"
    /\ hs[1].attempt = MaxRetrySteps
    /\ hs[1].resp.kind = "error" /\ hs[1].resp.code = 500
    /\ Edits >= MaxRetrySteps

\* the step in which the Get of worker h finds that the recording is gone
GetNotFound(h) ==
    /\ hs[h].pc = "get"
    /\ ~recs[Item(hs[h]).id].exists
    /\ hs'[h] # hs[h]

\* C18: when the Get finds the recording gone, nothing is written to the store or
\* to the counters, the worker makes no status or finalizer write for it, and goes
\* on with the selector test and the next recording without an error
C18_NotFoundIsNoOp ==
    [][\A h \in Handlers :
          GetNotFound(h)
          => /\ recs' = recs
             /\ replicas' = replicas
             /\ hs'[h].pc \notin {"get", "status", "cleanup", "update"}
                    \/ hs'[h].i > hs[h].i
             /\ hs'[h].attempt = 0
             /\ hs'[h].resp.kind # "error"]_vars

\* Create(a) was answered with a patch that has the annotation of r1, which was
\* deleted after Handle had listed it: r1 never got the pod into its list
C18_Witness ==
    /\ hs[1].pc = "done" /\ hs[1].req = Request(Create, PodA)
    /\ hs[1].resp.kind = "patch"
    /\ ~recs[1].exists
    /\ recs[1].activeWorkloads = << >> /\ ~recs[1].finalizer
    /\ CtrAnnotationKey(recs[1], EmptyStr, MainCtr.name)
         \in DOMAIN hs[1].resp.patched.annotations

-----------------------------------------------------------------------------
(* Claims checked under SpecMutate, continued *)

\* C19: a request that is no Delete and whose payload is no pod gets as far as the
\* decoding and no further: it is answered with 400 and no step of it changes a
\* recording or a counter; a Delete is handled without looking at its payload
C19_DecodeFailureRejects ==
    [][\A h \in Handlers :
          /\ (hs[h].req.malformed /\ hs[h].req.op \in {Create, Update})
                => /\ hs[h].pc \in {"listRecordings", "done"}
                   /\ hs[h].pc = "done"
                        => /\ hs[h].resp.kind = "error" /\ hs[h].resp.code = 400
                           /\ hs[h].resp.patched = hs[h].req.object
                   /\ recs' = recs /\ replicas' = replicas
          /\ (hs[h].req.malformed /\ hs[h].req.op = Delete /\ hs[h].pc = "done")
                => hs[h].resp.kind = "allowed"]_vars

\* the Create with a payload that is no pod was rejected
C19_Witness ==
    /\ hs[1].pc = "done"
    /\ hs[1].req.malformed /\ hs[1].req.op = Create
    /\ hs[1].resp.kind = "error" /\ hs[1].resp.code = 400

\* what Handle answers to req when rec is the only recording of the namespace and
\* no counter exists yet
AnswerAlone(req, rec) ==
    LET res == updatePod(req.object, rec, FirstReplica(req.object))
    IN  IF req.op # Delete /\ Applies(rec, req.object.labels) /\ res.podChanged
        THEN [kind |-> "patch", code |-> 200, patched |-> res.pod]
        ELSE [kind |-> "allowed", code |-> 200, patched |-> req.object]

\* C20: for a recording of an unsupported kind the worker makes no call on the
\* store and none on the counters, no step changes the stored recording, and the
\* request is answered as if the other recording were the only one
C20_UnsupportedKindSkipped ==
    [][\A h \in Handlers, id \in 1..Len(recs) :
          ~IsKindSupported(recs[id])
          => /\ recs'[id] = recs[id]
             /\ hs[h].pc \in {"listPods", "get", "status", "cleanup", "update",
                              "loadReplica", "storeReplica"}
                    => Item(hs[h]).id # id
             /\ \A k \in DOMAIN replicas : ~HasPrefix(k, recs[id].name)
             /\ (hs[h].pc = "done" /\ ~DecodeFails(hs[h].req))
                    => \E other \in 1..Len(recs) :
                          /\ other # id
                          /\ hs[h].resp = AnswerAlone(hs[h].req, recs[other])]_vars

\* r2, of an unsupported kind, selects pod a and comes first in the list; Create(a)
\* was answered with a patch that has the annotations of r1 only
C20_Witness ==
    /\ hs[1].pc = "done" /\ hs[1].req.op = Create /\ hs[1].req.name = PodA
    /\ hs[1].req.object.annotations = NoAnnotations
    /\ recs[1].name = Rec2Name /\ ~IsKindSupported(recs[1])
    /\ Matches(recs[1].selector, hs[1].req.object.labels)
    /\ hs[1].resp.kind = "patch"
    /\ DOMAIN hs[1].resp.patched.annotations
         = {CtrAnnotationKey(recs[2], EmptyStr, c) : c \in CtrNames}

-----------------------------------------------------------------------------
(* Claims about the replica counters *)

\* the counter keys made for the recording of this name
KeysOf(recordingName) ==
    {k \in DOMAIN replicas : HasPrefix(k, recordingName \o <<"/">>)}

\* the step in which the finalizer write of worker h takes the finalizer off the
\* stored recording
FinalizerRemoved(h) ==
    /\ FinalizerWrote(h)
    /\ recs[Item(hs[h]).id].finalizer
    /\ ~recs'[Item(hs[h]).id].finalizer

\* C21: once the tracker has taken the finalizer off a recording, no counter of
\* that recording is left
C21_CleanupRemovesAllCounters ==
    [][\A h \in Handlers :
          FinalizerRemoved(h)
          => \A k \in DOMAIN replicas' :
                ~HasPrefix(k, Item(hs[h]).name \o <<"/">>)]_vars

-----------------------------------------------------------------------------
(* Claims about the tracker, continued *)

\* the generate-name prefixes of the namespace
GenerateNames == {GenerateNameOf(n) : n \in AllPods} \ {EmptyStr}

\* C22: no stored active-workload list has a generate-name prefix as an entry
C22_NoPrefixInWorkloads ==
    \A id \in 1..Len(recs) :
        \A k \in 1..Len(recs[id].activeWorkloads) :
            recs[id].activeWorkloads[k] \notin GenerateNames

-----------------------------------------------------------------------------
(* Claims about the replica counters, continued *)

\* C23: a counter starts at 0 and, as long as its key is in the map, no step makes
\* it smaller
C23_CountersMonotonic ==
    [][\A k \in DOMAIN replicas' :
          IF k \in DOMAIN replicas
          THEN replicas'[k] >= replicas[k]
          ELSE replicas'[k] = 0]_vars

-----------------------------------------------------------------------------
(* Claims about the tracker, continued: checked under Spec *)

\* C24: an evaluation for a request that is no Delete, with an empty snapshot and
\* a pod the selector does not match, ends with no finalizer on the stored
\* recording
C24_EmptySnapshotNoMatch ==
    [][\A h \in Handlers :
          (/\ TrackerSucceeded(h)
           /\ hs[h].req.op # Delete
           /\ hs[h].recordedPods = << >>
           /\ ~Matches(Item(hs[h]).selector, hs[h].podLabels))
          => ~recs'[Item(hs[h]).id].finalizer]_vars

\* Create(a) was admitted, which put the finalizer on r1, and a is not in the
\* store yet; Create(c) has been answered since and r1 has no finalizer
C24_Witness ==
    \E h \in Handlers :
        /\ Answered(h) /\ hs[h].req = Request(Create, PodC)
        /\ \A g \in Handlers \ {h} : hs[g].pc = "idle"
        /\ podPhase = [n \in AllPods |-> IF n = PodA THEN "admitted" ELSE "absent"]
        /\ nreq = 2
        /\ ~recs[1].finalizer

-----------------------------------------------------------------------------
(* Claims about the order of the calls of Handle: checked under SpecMutate *)

\* the items strictly between positions from and to are of unsupported kinds
OnlyUnsupportedBetween(items, from, to) ==
    \A j \in (from + 1)..(to - 1) : ~IsKindSupported(items[j])

\* worker h is answering without an error in this step
Decides(h) ==
    /\ hs[h].pc \notin {"idle", "done"}
    /\ hs'[h].pc = "done" /\ hs'[h].resp.kind # "error"

\* the step in which worker h is through with the tracker for its current item:
\* the finalizer write went through, or the Get found the recording gone
TrackerDone(h) ==
    \/ /\ hs[h].pc = "update" /\ hs[h].fresh
       /\ recs[Item(hs[h]).id].exists
       /\ recs'[Item(hs[h]).id].finalizer = hs[h].obj.finalizer
    \/ GetNotFound(h)

\* C25: unless it gives the request up with an error, the worker leaves a
\* supported recording, for the next one or for the answer, only when the tracker
\* is through with it, which takes the status write and then the finalizer write;
\* it passes over no supported recording, whatever the operation and the labels
\* of the pod
C25_WritesBeforeDecision ==
    [][\A h \in Handlers :
          LET st  == hs[h]
              st1 == hs'[h]
              to  == IF st1.pc = "done" THEN Len(st.items) + 1 ELSE st1.i
          IN  /\ (st.pc = "listRecordings" /\ st1.pc = "listPods")
                    => OnlyUnsupportedBetween(st1.items, 0, st1.i)
              /\ (st.pc = "listRecordings" /\ Decides(h))
                    => \A id \in 1..Len(recs) :
                          recs[id].exists => ~IsKindSupported(recs[id])
              /\ (st.pc \in {"listPods", "get", "status", "cleanup", "update"}
                    /\ ~Failed(h)
                    /\ (Decides(h) \/ st1.i # st.i \/ st1.pc = "loadReplica"))
                    => /\ TrackerDone(h)
                       /\ st1.pc # "loadReplica"
                            => OnlyUnsupportedBetween(st.items, st.i, to)
              /\ (st.pc \in {"loadReplica", "storeReplica"}
                    /\ ~Failed(h)
                    /\ (Decides(h) \/ st1.i # st.i))
                    => /\ st.pc = "storeReplica"
                       /\ OnlyUnsupportedBetween(st.items, st.i, to)
              /\ (st1.pc \in {"update", "cleanup"} /\ st.pc \notin {"update", "cleanup"})
                    => /\ st.pc = "status" /\ st.fresh
                       /\ recs'[Item(st).id].activeWorkloads
                            = st1.obj.activeWorkloads]_vars

\* Delete(a): both recordings are supported, r2 selects every pod; the request was
\* answered as unchanged after a was taken off both lists and both finalizers
C25_Witness ==
    /\ hs[1].pc = "done" /\ hs[1].req = Request(Delete, PodA)
    /\ hs[1].resp.kind = "allowed"
    /\ \A id \in 1..Len(recs) :
          /\ IsKindSupported(recs[id])
          /\ Matches(recs[id].selector, {})  =  (recs[id].name = Rec2Name)
          /\ recs[id].activeWorkloads = << >>
          /\ ~recs[id].finalizer

-----------------------------------------------------------------------------
(* Claims about the tracker, continued: checked under Spec *)

\* C26: when the finalizer write of an evaluation goes through, the finalizer it
\* stores is present exactly if the list the same evaluation wrote is not empty
C26_WritesAgree ==
    [][\A h \in Handlers :
          TrackerSucceeded(h)
          => (recs'[Item(hs[h]).id].finalizer
                <=> hs[h].obj.activeWorkloads # << >>)]_vars

\* a was created, written to the store and deleted again, nothing else happened:
\* the Delete wrote the empty list and took the finalizer off
C26_Witness ==
    \E h \in Handlers :
        /\ Answered(h) /\ hs[h].req = Request(Delete, PodA)
        /\ \A g \in Handlers \ {h} : hs[g].pc = "idle"
        /\ nreq = 2
        /\ podPhase[PodA] = "live"
        /\ recs[1].activeWorkloads = << >> /\ ~recs[1].finalizer

-----------------------------------------------------------------------------
(* Claims checked under SpecMutate, continued *)

\* C27: a Delete works on the empty pod; it never gets to the counter calls, no
\* step of it outside the cleanup changes a counter, and it is answered as
\* unchanged or with an error, never with a patch
C27_DeleteNeverPatches ==
    [][\A h \in Handlers :
          hs[h].req.op = Delete
          => /\ hs[h].pc \notin {"loadReplica", "storeReplica"}
             /\ hs[h].pc # "listRecordings" => hs[h].pod = EmptyPod
             /\ ~hs[h].podChanged
             /\ hs[h].pc # "cleanup" => replicas' = replicas
             /\ hs[h].pc = "done"
                    => /\ hs[h].resp.kind \in {"allowed", "error"}
                       /\ hs[h].resp.patched = hs[h].req.object]_vars

\* Delete(a) with r2 first in the list, supported, with the Logs recorder and the
\* empty selector, which matches the empty pod: answered as unchanged
C27_Witness ==
    /\ hs[1].pc = "done" /\ hs[1].req.op = Delete /\ hs[1].req.name = PodA
    /\ recs[1].name = Rec2Name /\ recs[1].selector = {}
    /\ IsKindSupported(recs[1]) /\ recs[1].recorder = ProfileRecorderLogs
    /\ recs[1].containers.nil
    /\ hs[1].resp.kind = "allowed"

-----------------------------------------------------------------------------
(* Claims checked under Spec: the snapshot across the attempts of util.Retry *)

\* the pods p.impl.ListRecordedPods would return for worker h's item now
ListedNow(h) ==
    SelectSeq(PodOrder, LAMBDA n :
        /\ podPhase[n] \in {"live", "terminating"}
        /\ Matches(Item(hs[h]).selector, LabelsOf(n)))

\* the step in which worker h starts another attempt on its item
Retried(h) ==
    /\ hs'[h].attempt > hs[h].attempt
    /\ hs'[h].pc # "done"

\* C28: another attempt starts at the Get and keeps the snapshot, the pod name and
\* the labels listed before the first attempt; no step of a later attempt changes
\* the snapshot, whatever happens to the pods in the store; the list and the
\* finalizer a later attempt writes are the ones computed from that snapshot
C28_SnapshotKeptByRetries ==
    [][\A h \in Handlers :
          LET st  == hs[h]
              sel == Matches(Item(st).selector, st.podLabels)
          IN  /\ Retried(h)
                    => /\ hs'[h].pc = "get"
                       /\ hs'[h].recordedPods = st.recordedPods
                       /\ hs'[h].podName = st.podName
                       /\ hs'[h].podLabels = st.podLabels
                       /\ hs'[h].i = st.i
              /\ (st.attempt >= 1 /\ hs'[h].attempt >= 1 /\ hs'[h].pc # "done")
                    => hs'[h].recordedPods = st.recordedPods
              /\ (st.attempt >= 1 /\ StatusWrote(h))
                    => recs'[Item(st).id].activeWorkloads
                         = NewActiveWorkloads(st.req.op, sel, st.podName,
                                              st.recordedPods)
              /\ (st.attempt >= 1 /\ TrackerSucceeded(h))
                    => recs'[Item(st).id].finalizer
                         = anyPodMatch(st.req.op, sel, st.podName,
                                       st.recordedPods)]_vars

\* a second attempt has written the list of its snapshot although the store now
\* holds other pods than the snapshot
C28_Witness ==
    \E h \in Handlers :
        /\ hs[h].pc = "update" /\ hs[h].attempt = 1 /\ hs[h].fresh
        /\ ListedNow(h) # hs[h].recordedPods
        /\ recs[Item(hs[h]).id].activeWorkloads
             = NewActiveWorkloads(hs[h].req.op,
                                  Matches(Item(hs[h]).selector, hs[h].podLabels),
                                  hs[h].podName, hs[h].recordedPods)

-----------------------------------------------------------------------------
(* Specification: one admission worker, requests one after the other, and two
   recordings that both resolve suffixes for the workload w-: r1 selects the pods
   with the label app, r (whose name is a prefix of r1) selects every pod *)

RecRName == <<"r">>

KeyRecs ==
    <<Recording(Rec1Name, AppLabels, NilContainers,
                ProfileRecorderLogs, ProfileRecordingKindSeccompProfile),
      Recording(RecRName, {}, NilContainers,
                ProfileRecorderLogs, ProfileRecordingKindSeccompProfile)>>

KeyRequests ==
    {CreateGenerated(GenW), Request(Create, PodC),
     Request(Delete, GenWx), Request(Delete, PodC)}

InitKeys ==
    /\ recs \in {KeyRecs, <<KeyRecs[2], KeyRecs[1]>>}
    /\ podPhase = [n \in AllPods |-> "absent"]
    /\ replicas = [k \in {} |-> 0]
    /\ hs = [h \in Handlers |-> IdleState]
    /\ nreq = 0
    /\ log = << >>

NextKeys ==
    \/ \E r \in KeyRequests : Submit(1, r, MaxKeyRequests)
    \/ ListProfileRecordings(1)
    \/ ListRecordedPods(1)
    \/ GetProfileRecording(1)
    \/ UpdateResourceStatus(1)
    \/ cleanupReplicas(1)
    \/ UpdateResource(1)
    \/ LoadOrStore(1)
    \/ StoreReplica(1)
    \/ CompleteNow(1)

SpecKeys == InitKeys /\ [][NextKeys]_vars

\* the keys at which the counter map differs before and after the step
ChangedKeys ==
    {k \in DOMAIN replicas \cup DOMAIN replicas' :
        \/ k \notin DOMAIN replicas
        \/ k \notin DOMAIN replicas'
        \/ replicas'[k] # replicas[k]}

\* C29: a cleanup or a resolution for the recording named R changes only entries
\* whose key starts with R/; every entry whose key starts with the name of another
\* recording and / is still there afterwards, with the same value
C29_OtherCountersUntouched ==
    [][\A h \in Handlers :
          hs[h].pc \in {"cleanup", "loadReplica", "storeReplica"}
          => LET R == Item(hs[h]).name
             IN  /\ \A k \in ChangedKeys : HasPrefix(k, R \o <<"/">>)
                 /\ \A id \in 1..Len(recs) :
                       recs[id].name # R
                       => \A k \in KeysOf(recs[id].name) :
                             /\ k \in DOMAIN replicas'
                             /\ replicas'[k] = replicas[k]]_vars

\* the cleanup for r1 after the Delete of w-x has removed r1/w- and has left the
\* counter r/w- of the other recording, which c still references, as it was
C29_Witness ==
    /\ hs[1].pc = "update" /\ hs[1].req = Request(Delete, GenWx)
    /\ Item(hs[1]).name = Rec1Name
    /\ ~hs[1].obj.finalizer /\ recs[Item(hs[1]).id].finalizer
    /\ KeysOf(Rec1Name) = {}
    /\ KeysOf(RecRName) = {RecRName \o <<"/">> \o GenW}
    /\ replicas[RecRName \o <<"/">> \o GenW] = 1
    /\ podPhase[PodC] = "live"

====
